---- MODULE Spec2Model ----
(***************************************************************************)
(* Model of the google_secret_manager lookup plugin                        *)
(* (plugins/lookup/google_secret_manager.py): LookupModule.run and         *)
(* LookupModule.get_secret_value.                                          *)
(*                                                                         *)
(* A Python str is a sequence of one-character strings, so that lower(),   *)
(* split('.'), ''.join, the f-string path, json.loads and str() are        *)
(* computed character by character.                                        *)
(***************************************************************************)
EXTENDS Integers, Sequences, FiniteSets, TLC

(* ------------------------------ bounds -------------------------------- *)

\* The longest list of terms handed to run.
MaxTerms == 2

(* -------------------------- Python strings ---------------------------- *)

UpperCase == <<"A", "B", "C", "D", "E", "F", "G", "H", "I", "J", "K", "L", "M",
               "N", "O", "P", "Q", "R", "S", "T", "U", "V", "W", "X", "Y", "Z">>

LowerCase == <<"a", "b", "c", "d", "e", "f", "g", "h", "i", "j", "k", "l", "m",
               "n", "o", "p", "q", "r", "s", "t", "u", "v", "w", "x", "y", "z">>

Digits == <<"0", "1", "2", "3", "4", "5", "6", "7", "8", "9">>

lower_char(c) ==
    IF \E k \in 1..Len(UpperCase) : UpperCase[k] = c
    THEN LowerCase[CHOOSE k \in 1..Len(UpperCase) : UpperCase[k] = c]
    ELSE c

\* lower() left out: the string as it is.
lower_identity(s) == s

\* str.lower()
lower(s) == [k \in 1..Len(s) |-> lower_char(s[k])]

\* The position of the first occurrence of character c in s at or after
\* position from, or 0.
find_char(s, c, from) ==
    IF \E k \in from..Len(s) : s[k] = c
    THEN CHOOSE k \in from..Len(s) : s[k] = c /\ \A m \in from..(k - 1) : s[m] # c
    ELSE 0

\* str.split(sep) for a one-character separator: n separators give n + 1
\* segments, empty ones included.
RECURSIVE split(_, _)
split(s, sep) ==
    LET p == find_char(s, sep, 1) IN
    IF p = 0 THEN <<s>>
    ELSE <<SubSeq(s, 1, p - 1)>> \o split(SubSeq(s, p + 1, Len(s)), sep)

\* ''.join(list)
RECURSIVE join_str(_)
join_str(list) ==
    IF list = <<>> THEN <<>> ELSE Head(list) \o join_str(Tail(list))

\* sub in s, for two strings (Python's substring test).
is_substring(sub, s) ==
    \E k \in 1..(Len(s) - Len(sub) + 1) : SubSeq(s, k, k + Len(sub) - 1) = sub

\* str(n) for an int n >= 0.
RECURSIVE str_int(_)
str_int(n) ==
    IF n < 10 THEN <<Digits[n + 1]>>
    ELSE str_int(n \div 10) \o <<Digits[(n % 10) + 1]>>

(* ------------------------------- JSON --------------------------------- *)

\* The Python values json.loads builds: dict, str, int, None, True, False.
\* A dict is the sequence of its (key, value) members in document order.
JObj(members) == [kind |-> "dict", n |-> 0, s |-> <<>>, members |-> members]
JStr(s) == [kind |-> "str", n |-> 0, s |-> s, members |-> <<>>]
JNum(n) == [kind |-> "int", n |-> n, s |-> <<>>, members |-> <<>>]
JNone == [kind |-> "None", n |-> 0, s |-> <<>>, members |-> <<>>]
JBool(b) == [kind |-> "bool", n |-> IF b THEN 1 ELSE 0, s |-> <<>>, members |-> <<>>]

ParseFail == [ok |-> FALSE, val |-> JNone, pos |-> 0]
ParseOk(v, p) == [ok |-> TRUE, val |-> v, pos |-> p]

has_prefix_at(text, pos, lit) ==
    /\ pos + Len(lit) - 1 <= Len(text)
    /\ SubSeq(text, pos, pos + Len(lit) - 1) = lit

is_digit(c) == \E k \in 1..Len(Digits) : Digits[k] = c
digit_value(c) == (CHOOSE k \in 1..Len(Digits) : Digits[k] = c) - 1

\* The end of the run of digits that starts at pos.
RECURSIVE digits_end(_, _)
digits_end(text, pos) ==
    IF pos <= Len(text) /\ is_digit(text[pos]) THEN digits_end(text, pos + 1) ELSE pos

RECURSIVE int_of(_)
int_of(ds) ==
    IF ds = <<>> THEN 0
    ELSE 10 * int_of(SubSeq(ds, 1, Len(ds) - 1)) + digit_value(ds[Len(ds)])

\* A string literal without escapes: "..." starting at pos.
parse_string(text, pos) ==
    IF pos <= Len(text) /\ text[pos] = "\""
    THEN LET q == find_char(text, "\"", pos + 1) IN
         IF q = 0 THEN ParseFail
         ELSE ParseOk(JStr(SubSeq(text, pos + 1, q - 1)), q + 1)
    ELSE ParseFail

\* json.loads on the grammar without white space, escapes, arrays, signs or
\* fractions: value ::= object | string | digits | null | true | false.
RECURSIVE parse_value(_, _), parse_members(_, _, _)
parse_value(text, pos) ==
    IF pos > Len(text) THEN ParseFail
    ELSE IF text[pos] = "{" THEN
        IF pos + 1 <= Len(text) /\ text[pos + 1] = "}"
        THEN ParseOk(JObj(<<>>), pos + 2)
        ELSE parse_members(text, pos + 1, <<>>)
    ELSE IF text[pos] = "\"" THEN parse_string(text, pos)
    ELSE IF is_digit(text[pos]) THEN
        LET e == digits_end(text, pos) IN
        \* json rejects a leading zero followed by more digits
        IF text[pos] = "0" /\ e > pos + 1 THEN ParseFail
        ELSE ParseOk(JNum(int_of(SubSeq(text, pos, e - 1))), e)
    ELSE IF has_prefix_at(text, pos, <<"n", "u", "l", "l">>) THEN ParseOk(JNone, pos + 4)
    ELSE IF has_prefix_at(text, pos, <<"t", "r", "u", "e">>) THEN ParseOk(JBool(TRUE), pos + 4)
    ELSE IF has_prefix_at(text, pos, <<"f", "a", "l", "s", "e">>) THEN ParseOk(JBool(FALSE), pos + 5)
    ELSE ParseFail

\* d[key] = v on the members of a dict: a key already present keeps its place
\* and takes the new value.
dict_set(members, key, v) ==
    IF \E k \in 1..Len(members) : members[k].k = key
    THEN [k \in 1..Len(members) |->
             IF members[k].k = key THEN [k |-> key, v |-> v] ELSE members[k]]
    ELSE Append(members, [k |-> key, v |-> v])

\* The members of an object after its "{" or after a ",": key ":" value,
\* then "," and more members, or "}".
parse_members(text, pos, acc) ==
    LET k == parse_string(text, pos) IN
    IF ~k.ok \/ k.pos > Len(text) \/ text[k.pos] # ":" THEN ParseFail
    ELSE LET v == parse_value(text, k.pos + 1) IN
         IF ~v.ok \/ v.pos > Len(text) THEN ParseFail
         ELSE LET more == dict_set(acc, k.val.s, v.val) IN
              IF text[v.pos] = "}" THEN ParseOk(JObj(more), v.pos + 1)
              ELSE IF text[v.pos] = "," THEN parse_members(text, v.pos + 1, more)
              ELSE ParseFail

\* json.loads(payload): ok is FALSE where json raises JSONDecodeError.
json_loads(text) ==
    LET r == parse_value(text, 1) IN
    IF r.ok /\ r.pos = Len(text) + 1 THEN [ok |-> TRUE, val |-> r.val]
    ELSE [ok |-> FALSE, val |-> JNone]

\* key in d, for a dict d.
dict_has(d, key) == \E k \in 1..Len(d.members) : d.members[k].k = key

\* d[key] for a dict d that has the key.
dict_get(d, key) ==
    d.members[CHOOSE k \in 1..Len(d.members) : d.members[k].k = key].v

\* repr(v) and str(v): a str is quoted by repr and left as it is by str.
RECURSIVE py_repr(_), repr_members(_)
py_repr(v) ==
    CASE v.kind = "str" -> <<"'">> \o v.s \o <<"'">>
      [] v.kind = "int" -> str_int(v.n)
      [] v.kind = "None" -> <<"N", "o", "n", "e">>
      [] v.kind = "bool" -> IF v.n = 1 THEN <<"T", "r", "u", "e">>
                                       ELSE <<"F", "a", "l", "s", "e">>
      [] v.kind = "dict" -> <<"{">> \o repr_members(v.members) \o <<"}">>

repr_members(ms) ==
    IF ms = <<>> THEN <<>>
    ELSE <<"'">> \o ms[1].k \o <<"'", ":", " ">> \o py_repr(ms[1].v)
         \o (IF Len(ms) > 1 THEN <<",", " ">> ELSE <<>>) \o repr_members(Tail(ms))

py_str(v) == IF v.kind = "str" THEN v.s ELSE py_repr(v)

(* --------------------------- inputs of run ---------------------------- *)

s_error == <<"e", "r", "r", "o", "r">>
s_warn == <<"w", "a", "r", "n">>
s_skip == <<"s", "k", "i", "p">>
s_latest == <<"l", "a", "t", "e", "s", "t">>

\* The strings handed to run as on_missing and on_denied.
PolicyInputs ==
    { s_error, s_skip,
      <<"W", "a", "r", "n">>,
      <<"i", "g", "n", "o", "r", "e">>,
      <<"e", "r", "r", "o", "r", "s">>,
      <<>> }

\* The terms: a plain name, a name with one key, a name with two keys.
Terms ==
    { <<"a">>,
      <<"a", ".", "b">>,
      <<"a", ".", "b", ".", "c">> }

TermLists == UNION { [1..n -> Terms] : n \in 0..MaxTerms }

\* version_id as the caller passes it: left out, empty, or a version number.
VersionArgs ==
    { [given |-> FALSE, v |-> <<>>],
      [given |-> TRUE, v |-> <<>>],
      [given |-> TRUE, v |-> <<"7">>] }

ProjectId == <<"P">>

\* The payloads the service may hold, as the text decode("UTF-8") gives
\* (bytes that are not UTF-8 are left out): the empty payload, an empty
\* object, {"b":7} and {"b":{"c":42}}.
Payloads ==
    { <<>>,
      <<"{", "}">>,
      <<"{", "\"", "b", "\"", ":", "7", "}">>,
      <<"{", "\"", "b", "\"", ":", "{", "\"", "c", "\"", ":", "4", "2", "}", "}">> }

\* What client.access_secret_version does: it returns a response with a
\* payload, or raises NotFound, PermissionDenied, another ClientError, or an
\* exception that is no ClientError (a ServerError).
Responses ==
    { [kind |-> "ok", data |-> d] : d \in Payloads }
    \cup { [kind |-> k, data |-> <<>>] :
             k \in {"NotFound", "PermissionDenied", "ClientError", "ServerError"} }

(* ------------------------- get_secret_value --------------------------- *)

NoError == [type |-> "none", template |-> "", arg |-> <<>>]
AnsibleError(template, arg) == [type |-> "AnsibleError", template |-> template, arg |-> arg]
Uncaught(type) == [type |-> type, template |-> "", arg |-> <<>>]

\* What one call of get_secret_value does: the names it fetched (none or
\* one), the warnings it displayed, and how it ended: an exception, or a
\* return of a str or of None.
Returned(name, s) ==
    [fetched |-> <<name>>, warned |-> <<>>, error |-> NoError, none |-> FALSE, value |-> s]
ReturnedNone(name, warned) ==
    [fetched |-> <<name>>, warned |-> warned, error |-> NoError, none |-> TRUE, value |-> <<>>]
Raised(fetched, err) ==
    [fetched |-> fetched, warned |-> <<>>, error |-> err, none |-> TRUE, value |-> <<>>]

\* The f-string "projects/{project_id}/secrets".
parent_of(project_id) ==
    <<"p", "r", "o", "j", "e", "c", "t", "s", "/">> \o project_id
    \o <<"/", "s", "e", "c", "r", "e", "t", "s">>

\* The f-string "{parent}/{secret_name}/versions".
versions_of(project_id, secret_name) ==
    parent_of(project_id) \o <<"/">> \o secret_name
    \o <<"/", "v", "e", "r", "s", "i", "o", "n", "s">>

\* The name without the default: an empty version_id is appended as it is.
resource_name_no_default(term, project_id, version_id, nested) ==
    LET secret_name == IF nested THEN split(term, ".")[1] ELSE term
    IN versions_of(project_id, secret_name) \o <<"/">> \o version_id

\* name, as built before the fetch.
resource_name(term, project_id, version_id, nested) ==
    LET secret_name == IF nested THEN split(term, ".")[1] ELSE term
        name == versions_of(project_id, secret_name)
    IN IF version_id # <<>> THEN name \o <<"/">> \o version_id
       ELSE name \o <<"/">> \o s_latest

\* ret_val after the keys of query, or the exception the walk raises.
RECURSIVE walk(_, _)
walk(ret_val, query) ==
    IF query = <<>> THEN [error |-> NoError, val |-> ret_val]
    ELSE LET key == Head(query) IN
         CASE ret_val.kind = "dict" ->
                IF dict_has(ret_val, key) THEN walk(dict_get(ret_val, key), Tail(query))
                ELSE [error |-> AnsibleError("Successfully retrieved secret but there exists no key {0} in the secret", key),
                      val |-> JNone]
           [] ret_val.kind = "str" ->
                \* key in ret_val is the substring test, and ret_val[key]
                \* raises TypeError (string indices must be integers)
                IF is_substring(key, ret_val.s)
                THEN [error |-> Uncaught("TypeError"), val |-> JNone]
                ELSE [error |-> AnsibleError("Successfully retrieved secret but there exists no key {0} in the secret", key),
                      val |-> JNone]
           [] OTHER ->
                \* key in ret_val raises TypeError for an int, None, a bool
                [error |-> Uncaught("TypeError"), val |-> JNone]

\* What the try block does with a response.
on_response(term, name, payload, nested) ==
    IF nested THEN
        LET query == Tail(split(term, "."))
            secret_string == json_loads(payload)
        IN IF ~secret_string.ok THEN Raised(<<name>>, Uncaught("JSONDecodeError"))
           ELSE LET w == walk(secret_string.val, query) IN
                IF w.error # NoError THEN Raised(<<name>>, w.error)
                ELSE Returned(name, py_str(w.val))
    ELSE Returned(name, payload)

\* The except clauses with on_missing read in the PermissionDenied clause.
on_exception_swapped(term, name, kind, on_missing, on_denied) ==
    CASE kind = "NotFound" ->
           IF on_missing = s_error
           THEN Raised(<<name>>, AnsibleError("Failed to find secret %s (ResourceNotFound)", term))
           ELSE IF on_missing = s_warn
           THEN ReturnedNone(name, <<[template |-> "Skipping, did not find secret %s", arg |-> term]>>)
           ELSE ReturnedNone(name, <<>>)
      [] kind = "PermissionDenied" ->
           IF on_missing = s_error
           THEN Raised(<<name>>, AnsibleError("Failed to access secret %s (AccessDenied)", term))
           ELSE IF on_missing = s_warn
           THEN ReturnedNone(name, <<[template |-> "Skipping, access denied for secret %s", arg |-> term]>>)
           ELSE ReturnedNone(name, <<>>)
      [] kind = "ClientError" ->
           Raised(<<name>>, AnsibleError("Failed to retrieve secret: %s", <<>>))
      [] OTHER -> Raised(<<name>>, Uncaught(kind))

\* The except clauses with the ClientError clause first: NotFound and
\* PermissionDenied are ClientErrors, and it takes them.
on_exception_generic_first(term, name, kind, on_missing, on_denied) ==
    IF kind \in {"NotFound", "PermissionDenied", "ClientError"}
    THEN Raised(<<name>>, AnsibleError("Failed to retrieve secret: %s", <<>>))
    ELSE Raised(<<name>>, Uncaught(kind))

\* The except clauses, in their order: NF, PD, CE; any other exception
\* leaves get_secret_value as it is.
on_exception(term, name, kind, on_missing, on_denied) ==
    CASE kind = "NotFound" ->
           IF on_missing = s_error
           THEN Raised(<<name>>, AnsibleError("Failed to find secret %s (ResourceNotFound)", term))
           ELSE IF on_missing = s_warn
           THEN ReturnedNone(name, <<[template |-> "Skipping, did not find secret %s", arg |-> term]>>)
           ELSE ReturnedNone(name, <<>>)
      [] kind = "PermissionDenied" ->
           IF on_denied = s_error
           THEN Raised(<<name>>, AnsibleError("Failed to access secret %s (AccessDenied)", term))
           ELSE IF on_denied = s_warn
           THEN ReturnedNone(name, <<[template |-> "Skipping, access denied for secret %s", arg |-> term]>>)
           ELSE ReturnedNone(name, <<>>)
      [] kind = "ClientError" ->
           Raised(<<name>>, AnsibleError("Failed to retrieve secret: %s", <<>>))
      [] OTHER -> Raised(<<name>>, Uncaught(kind))

\* get_secret_value without the check of the nested syntax.
get_secret_value_unchecked(term, resp, project_id, version_id, on_missing, on_denied, nested) ==
    LET name == resource_name(term, project_id, version_id, nested) IN
    IF resp.kind = "ok" THEN on_response(term, name, resp.data, nested)
    ELSE on_exception(term, name, resp.kind, on_missing, on_denied)

\* get_secret_value, with resp what the client answers to the fetch.
get_secret_value(term, resp, project_id, version_id, on_missing, on_denied, nested) ==
    IF nested /\ Len(split(term, ".")) < 2
    THEN Raised(<<>>, AnsibleError("Nested query must use the following syntax: aws_secret_name.<key_name>.<key_name>", <<>>))
    ELSE LET name == resource_name(term, project_id, version_id, nested) IN
         IF resp.kind = "ok" THEN on_response(term, name, resp.data, nested)
         ELSE on_exception(term, name, resp.kind, on_missing, on_denied)

(* ------------------------------- state -------------------------------- *)

VARIABLES
    project_id,   \* the arguments of run
    terms,
    nested,
    join,
    version_arg,
    on_missing,
    on_denied,
    pc,           \* where run is: "run", "loop", "returned", "raised"
    missing,      \* on_missing.lower(), once computed
    denied,       \* on_denied.lower(), once computed
    client,       \* whether SecretManagerServiceClient() has been created
    idx,          \* the position in terms of the for loop
    secrets,      \* the list run collects
    fetches,      \* the calls of access_secret_version so far, with their answers
    warnings,     \* what self._display.warning has been given so far
    result,       \* the list run returned
    error         \* the exception run raised

vars == <<project_id, terms, nested, join, version_arg, on_missing, on_denied, pc,
          missing, denied, client, idx, secrets, fetches, warnings, result, error>>

args == <<project_id, terms, nested, join, version_arg, on_missing, on_denied>>

\* version_id as run binds it: the default "latest" when the caller leaves it out.
version_id == IF version_arg.given THEN version_arg.v ELSE s_latest

ValidPolicies == {s_error, s_warn, s_skip}

Init ==
    /\ project_id = ProjectId
    /\ terms \in TermLists
    /\ nested \in BOOLEAN
    /\ join \in BOOLEAN
    /\ version_arg \in VersionArgs
    /\ on_missing \in PolicyInputs
    /\ on_denied \in PolicyInputs
    /\ pc = "run"
    /\ missing = <<>>
    /\ denied = <<>>
    /\ client = FALSE
    /\ idx = 1
    /\ secrets = <<>>
    /\ fetches = <<>>
    /\ warnings = <<>>
    /\ result = <<>>
    /\ error = NoError

\* run up to the loop: both policies are lowered and checked, on_missing
\* first, and then the client is created.
Validate ==
    /\ pc = "run"
    /\ missing' = lower(on_missing)
    /\ IF missing' \notin ValidPolicies
       THEN /\ error' = AnsibleError("\"on_missing\" must be a string and one of \"error\", \"warn\" or \"skip\", not %s", missing')
            /\ pc' = "raised"
            /\ UNCHANGED <<denied, client>>
       ELSE /\ denied' = lower(on_denied)
            /\ IF denied' \notin ValidPolicies
               THEN /\ error' = AnsibleError("\"on_denied\" must be a string and one of \"error\", \"warn\" or \"skip\", not %s", denied')
                    /\ pc' = "raised"
                    /\ UNCHANGED client
               ELSE /\ client' = TRUE
                    /\ pc' = "loop"
                    /\ UNCHANGED error
    /\ UNCHANGED <<args, idx, secrets, fetches, warnings, result>>

\* if value: a str is true unless it is empty, None is false.
truthy(r) == ~r.none /\ r.value # <<>>

\* The loop going on to the next term after an exception.
ResolveTerm_continue ==
    /\ pc = "loop"
    /\ idx <= Len(terms)
    /\ \E resp \in Responses :
         \E r \in {get_secret_value(terms[idx], resp, project_id, version_id,
                                   missing, denied, nested)} :
            /\ fetches' = fetches \o [k \in 1..Len(r.fetched) |->
                                         [name |-> r.fetched[k], resp |-> resp]]
            /\ warnings' = warnings \o r.warned
            /\ error' = IF r.error # NoError THEN r.error ELSE error
            /\ secrets' = IF truthy(r) THEN Append(secrets, r.value) ELSE secrets
            /\ idx' = idx + 1
            /\ UNCHANGED pc
    /\ UNCHANGED <<args, missing, denied, client, result>>

\* One turn of the for loop: get_secret_value for the next term, and the
\* append of a value that is true.
ResolveTerm ==
    /\ pc = "loop"
    /\ idx <= Len(terms)
    /\ \E resp \in Responses :
         \E r \in {get_secret_value(terms[idx], resp, project_id, version_id,
                                   missing, denied, nested)} :
            /\ fetches' = fetches \o [k \in 1..Len(r.fetched) |->
                                         [name |-> r.fetched[k], resp |-> resp]]
            /\ warnings' = warnings \o r.warned
            /\ IF r.error # NoError
               THEN /\ error' = r.error
                    /\ pc' = "raised"
                    /\ UNCHANGED <<idx, secrets>>
               ELSE /\ secrets' = IF truthy(r) THEN Append(secrets, r.value) ELSE secrets
                    /\ idx' = idx + 1
                    /\ UNCHANGED <<error, pc>>
    /\ UNCHANGED <<args, missing, denied, client, result>>

\* ','.join(list)
RECURSIVE join_comma(_)
join_comma(list) ==
    IF list = <<>> THEN <<>>
    ELSE IF Len(list) = 1 THEN list[1]
    ELSE Head(list) \o <<",">> \o join_comma(Tail(list))

\* The join with a separator.
run_result_separator(j, list) == IF j THEN <<join_comma(list)>> ELSE list

\* The join only of a list that is not empty.
run_result_nonempty(j, list) == IF j /\ list # <<>> THEN <<join_str(list)>> ELSE list

\* After the loop: the joined list, or the list.
run_result(j, list) == IF j THEN <<join_str(list)>> ELSE list

Return ==
    /\ pc = "loop"
    /\ idx > Len(terms)
    /\ result' = run_result(join, secrets)
    /\ pc' = "returned"
    /\ UNCHANGED <<args, missing, denied, client, idx, secrets, fetches, warnings, error>>

Next == Validate \/ ResolveTerm \/ Return

Spec == Init /\ [][Next]_vars

(* ------------------- what the claims are stated with ------------------ *)

\* Each letter in its two cases.
LetterPairs == { {UpperCase[k], LowerCase[k]} : k \in 1..Len(UpperCase) }

\* Two characters that are the same letter, whatever their case.
SameLetter(c, d) == c = d \/ {c, d} \in LetterPairs

EqIgnoreCase(s, t) ==
    /\ Len(s) = Len(t)
    /\ \A k \in 1..Len(s) : SameLetter(s[k], t[k])

\* The policy a string names, case-insensitively, or "invalid".
PolicyOf(s) ==
    CASE EqIgnoreCase(s, s_error) -> "error"
      [] EqIgnoreCase(s, s_warn) -> "warn"
      [] EqIgnoreCase(s, s_skip) -> "skip"
      [] OTHER -> "invalid"

PolicyTemplates ==
    { "\"on_missing\" must be a string and one of \"error\", \"warn\" or \"skip\", not %s",
      "\"on_denied\" must be a string and one of \"error\", \"warn\" or \"skip\", not %s" }

NestedSyntaxTemplate ==
    "Nested query must use the following syntax: aws_secret_name.<key_name>.<key_name>"

NoKeyTemplate ==
    "Successfully retrieved secret but there exists no key {0} in the secret"

GenericTemplate == "Failed to retrieve secret: %s"

HasDot(term) == \E k \in 1..Len(term) : term[k] = "."

\* The part of a term before its first ".", and the keys after it.
BeforeFirstDot(term) ==
    IF HasDot(term)
    THEN SubSeq(term, 1, (CHOOSE k \in 1..Len(term) :
                              term[k] = "." /\ \A m \in 1..(k - 1) : term[m] # ".") - 1)
    ELSE term

\* projects/{project}/secrets/{secret_name}/versions/{version_id}
PathOf(project, secret_name, version) ==
    <<"p", "r", "o", "j", "e", "c", "t", "s", "/">> \o project
    \o <<"/", "s", "e", "c", "r", "e", "t", "s", "/">> \o secret_name
    \o <<"/", "v", "e", "r", "s", "i", "o", "n", "s", "/">> \o version

ExpectedPath(term) ==
    PathOf(project_id,
           IF nested THEN BeforeFirstDot(term) ELSE term,
           IF version_arg.given /\ version_arg.v # <<>> THEN version_arg.v ELSE s_latest)

\* The kind of the answer to the k-th fetch.
KindOf(k) == fetches[k].resp.kind

\* The policy that governs the k-th fetch, when it ended in NotFound or
\* PermissionDenied.
GoverningPolicy(k) ==
    IF KindOf(k) = "NotFound" THEN PolicyOf(on_missing) ELSE PolicyOf(on_denied)

\* The terms, in order, among the first n fetched whose fetch ended in
\* NotFound or PermissionDenied under the policy "warn".
RECURSIVE WarnedTerms(_)
WarnedTerms(n) ==
    IF n = 0 THEN <<>>
    ELSE WarnedTerms(n - 1) \o
         (IF KindOf(n) \in {"NotFound", "PermissionDenied"} /\ GoverningPolicy(n) = "warn"
          THEN <<terms[n]>> ELSE <<>>)

\* The value a term resolves to from a payload: the payload, or with nested
\* the value found by the keys, as a string.
ResolvedValue(term, payload) ==
    IF nested
    THEN py_str(walk(json_loads(payload).val, Tail(split(term, "."))).val)
    ELSE payload

\* The resolved values, in order, of the first n terms whose fetch succeeded.
RECURSIVE ValuesOfFetched(_)
ValuesOfFetched(n) ==
    IF n = 0 THEN <<>>
    ELSE ValuesOfFetched(n - 1) \o
         (IF KindOf(n) = "ok" THEN <<ResolvedValue(terms[n], fetches[n].resp.data)>>
          ELSE <<>>)

\* The same, without the values that are the empty string.
NonEmptyValuesOfFetched(n) == SelectSeq(ValuesOfFetched(n), LAMBDA v : v # <<>>)

\* Concatenation from the left.
RECURSIVE Concat(_)
Concat(list) ==
    IF list = <<>> THEN <<>>
    ELSE Concat(SubSeq(list, 1, Len(list) - 1)) \o list[Len(list)]

Fatal == pc = "raised"

\* The terms the warnings displayed so far name.
WarningArgs == [k \in 1..Len(warnings) |-> warnings[k].arg]

(* ------------------------------- claims ------------------------------- *)

\* C1: once the policies have been checked: if on_missing and on_denied each
\* name, case-insensitively, one of error, warn, skip, the client has been
\* created and no policy error is raised; if either does not, run has raised
\* the configuration error of that policy with no client created and no fetch
\* issued, whatever the terms are.
C1_PolicyValidation ==
    pc # "run" =>
        IF PolicyOf(on_missing) # "invalid" /\ PolicyOf(on_denied) # "invalid"
        THEN /\ client
             /\ error.template \notin PolicyTemplates
             /\ PolicyOf(on_missing) = PolicyOf(missing)
             /\ missing \in ValidPolicies /\ denied \in ValidPolicies
        ELSE /\ Fatal
             /\ error.type = "AnsibleError"
             /\ error.template \in PolicyTemplates
             /\ ~client
             /\ fetches = <<>>
             /\ result = <<>>

\* A mixed-case valid on_missing has passed, an invalid on_denied has been
\* refused, with terms waiting.
C1_Witness ==
    /\ on_missing = <<"W", "a", "r", "n">>
    /\ PolicyOf(on_denied) = "invalid"
    /\ terms # <<>>
    /\ Fatal
    /\ error.arg = lower(on_denied)

\* C2: a fetch that ends in NotFound is decided by on_missing alone, one that
\* ends in PermissionDenied by on_denied alone. Under "error" it is the last
\* fetch, run has raised an error naming the term and returns nothing; under
\* "warn" and "skip" it is not fatal and the term yields no value. The
\* warnings displayed are exactly one per term under "warn", in order, none
\* under "skip", and the values collected are those of the terms fetched with
\* success, so the same under "warn" as under "skip".
C2_PolicyDecides ==
    /\ \A k \in 1..Len(fetches) :
         KindOf(k) \in {"NotFound", "PermissionDenied"} =>
            IF GoverningPolicy(k) = "error"
            THEN /\ k = Len(fetches)
                 /\ Fatal
                 /\ error.type = "AnsibleError"
                 /\ error.arg = terms[k]
                 /\ error.template =
                       (IF KindOf(k) = "NotFound"
                        THEN "Failed to find secret %s (ResourceNotFound)"
                        ELSE "Failed to access secret %s (AccessDenied)")
                 /\ result = <<>>
            ELSE idx > k
    /\ WarningArgs = WarnedTerms(Len(fetches))
    /\ \A k \in 1..Len(warnings) :
         warnings[k].template \in { "Skipping, did not find secret %s",
                                    "Skipping, access denied for secret %s" }
    /\ ~Fatal => secrets = NonEmptyValuesOfFetched(Len(fetches))

\* A NotFound under on_missing "warn" and a PermissionDenied under on_denied
\* "skip" have both been passed over, with one warning, and run has returned.
C2_Witness ==
    /\ pc = "returned"
    /\ Len(fetches) = 2
    /\ KindOf(1) = "NotFound" /\ KindOf(2) = "PermissionDenied"
    /\ PolicyOf(on_missing) = "warn" /\ PolicyOf(on_denied) = "skip"
    /\ Len(warnings) = 1
    /\ result = <<>>

\* C3: with join false, the list run returns is the resolved values of the
\* terms whose fetch succeeded, in term order, one entry for each.
C3_OneEntryPerSuccess ==
    (pc = "returned" /\ ~join) => result = ValuesOfFetched(Len(fetches))

\* C4: with join true, run returns one element, the concatenation in order
\* and with no separator of the list the same call returns with join false
\* (the list collected, which with nested holds the nested-resolved strings).
C4_JoinConcatenates ==
    (pc = "returned" /\ join) =>
        /\ Len(result) = 1
        /\ result[1] = Concat(run_result(FALSE, secrets))
        /\ result[1] = Concat(ValuesOfFetched(Len(fetches)))

\* Two nested values, 42 and 7, have been joined to 427.
C4_Witness ==
    /\ pc = "returned"
    /\ join /\ nested
    /\ Len(secrets) = 2
    /\ result = << <<"4", "2", "7">> >>

\* C5 as stated: for no terms and valid policies run issues no fetch and
\* returns the empty list, whatever join is.
C5_EmptyTermsEmptyResult ==
    (terms = <<>> /\ pc = "returned") => (fetches = <<>> /\ result = <<>>)

\* C5 as amended: for no terms and valid policies run issues no fetch and is
\* never fatal; it returns the empty list when join is false and the list of
\* the one empty string when join is true.
C5_EmptyTerms ==
    (terms = <<>> /\ PolicyOf(on_missing) # "invalid" /\ PolicyOf(on_denied) # "invalid"
       /\ pc # "run") =>
        /\ fetches = <<>>
        /\ ~Fatal
        /\ pc = "returned" => result = (IF join THEN << <<>> >> ELSE <<>>)

\* No terms, join true and nested true: run has returned the one empty string.
C5_Witness ==
    /\ terms = <<>>
    /\ join /\ nested
    /\ pc = "returned"
    /\ result = << <<>> >>

\* C6: with nested true, a term without a "." is never passed over: it ends
\* run with the nested-syntax error and without a fetch for it, whatever
\* the policies are.
C6_NestedSyntaxFatal ==
    (nested /\ client) =>
        /\ \A k \in 1..(idx - 1) : HasDot(terms[k])
        /\ (idx <= Len(terms) /\ ~HasDot(terms[idx]) /\ pc # "loop") =>
              /\ Fatal
              /\ error = AnsibleError(NestedSyntaxTemplate, <<>>)
              /\ Len(fetches) = idx - 1
              /\ WarningArgs = WarnedTerms(idx - 1)
              /\ result = <<>>

\* Under warn and skip, a second term without a "." has ended run after the
\* fetch of the first term only.
C6_Witness ==
    /\ nested
    /\ PolicyOf(on_missing) = "warn" /\ PolicyOf(on_denied) = "skip"
    /\ Len(terms) = 2 /\ idx = 2 /\ ~HasDot(terms[2])
    /\ Fatal
    /\ Len(fetches) = 1

\* C7: a fetch that fails with neither NotFound nor PermissionDenied is the
\* last fetch and run has raised, with no warning for it, whatever the
\* policies are; and the generic error is raised for no NotFound and no
\* PermissionDenied.
C7_OtherFailureFatal ==
    /\ \A k \in 1..Len(fetches) :
         KindOf(k) \notin {"ok", "NotFound", "PermissionDenied"} =>
            /\ k = Len(fetches)
            /\ Fatal
            /\ error # NoError
            /\ result = <<>>
            /\ Len(secrets) <= k - 1
            /\ WarningArgs = WarnedTerms(k - 1)
    /\ error.template = GenericTemplate =>
            /\ fetches # <<>>
            /\ KindOf(Len(fetches)) = "ClientError"

\* Under warn and skip, a ClientError on the second term has ended run.
C7_Witness ==
    /\ PolicyOf(on_missing) = "warn" /\ PolicyOf(on_denied) = "skip"
    /\ Len(fetches) = 2
    /\ KindOf(2) = "ClientError"
    /\ Fatal
    /\ error.template = GenericTemplate

\* The walk the claim C8 describes: the value at the end of the keys, or
\* "no key" where the current value is not an object or lacks the key.
RECURSIVE ClaimedWalk(_, _)
ClaimedWalk(v, keys) ==
    IF keys = <<>> THEN [found |-> TRUE, val |-> v]
    ELSE IF v.kind = "dict" /\ dict_has(v, Head(keys))
         THEN ClaimedWalk(dict_get(v, Head(keys)), Tail(keys))
         ELSE [found |-> FALSE, val |-> JNone]

\* C8: with nested true, after a fetch that succeeded with a payload that is
\* JSON: if the keys lead through objects to a value, the term is not fatal;
\* if not, run has raised the "no key" error.
C8_NestedWalk ==
    \A k \in 1..Len(fetches) :
        (nested /\ KindOf(k) = "ok" /\ json_loads(fetches[k].resp.data).ok) =>
            \A w \in {ClaimedWalk(json_loads(fetches[k].resp.data).val,
                                  Tail(split(terms[k], ".")))} :
               IF w.found
               THEN /\ idx > k
                    /\ ResolvedValue(terms[k], fetches[k].resp.data) = py_str(w.val)
               ELSE /\ k = Len(fetches)
                    /\ Fatal
                    /\ error.type = "AnsibleError"
                    /\ error.template = NoKeyTemplate

\* C9: every fetch is for the path of its term: the whole term, or with
\* nested its part before the first ".", and the version given, or "latest"
\* when none or the empty one is given.
C9_ResourcePath ==
    /\ Len(fetches) <= Len(terms)
    /\ \A k \in 1..Len(fetches) : fetches[k].name = ExpectedPath(terms[k])

\* With nested, a fetch for version 7 and one for the default version.
C9_Witness ==
    /\ nested
    /\ Len(fetches) = 2
    /\ terms[2] = <<"a", ".", "b", ".", "c">>
    /\ version_arg = [given |-> TRUE, v |-> <<"7">>]
    /\ fetches[2].name = PathOf(<<"P">>, <<"a">>, <<"7">>)

\* C10: the fetches are, in order, one for each term of a prefix of the
\* terms; the prefix is all the terms once run has returned; once run has
\* raised it does nothing more, has returned nothing, and the fetches stop
\* at the term that failed.
C10_FetchPrefix ==
    /\ Len(fetches) <= Len(terms)
    /\ \A k \in 1..Len(fetches) : fetches[k].name = ExpectedPath(terms[k])
    /\ pc \in {"loop", "returned"} => (Len(fetches) = idx - 1 /\ error = NoError)
    /\ pc = "returned" => Len(fetches) = Len(terms)
    /\ error # NoError => Fatal
    /\ (Fatal /\ client) => Len(fetches) \in {idx - 1, idx}
    /\ Fatal => (result = <<>> /\ ~ENABLED Next)

\* A fatal error on the first of two terms: one fetch, nothing returned.
C10_Witness ==
    /\ Len(terms) = 2
    /\ Fatal
    /\ Len(fetches) = 1
    /\ idx = 1
    /\ secrets = <<>>

====
